---- MODULE Spec2Model ----
(***************************************************************************)
(* A model of schedule_core.core.scheduler.TaskScheduler: the registry     *)
(* (tasks, task_schedules, concurrent_tasks), the running flag, the        *)
(* start() coroutines with their suspension points, the task bodies they   *)
(* await or spawn, and the cron evaluator they call. Beside it, the        *)
(* message handler of the RabbitMQ subscriptions and the session context   *)
(* manager of DatabaseManager, each under a specification of its own.      *)
(*                                                                         *)
(* asyncio runs one coroutine at a time and switches only at an await that *)
(* suspends, so every action below is one run of a coroutine from one      *)
(* suspension point to the next.                                           *)
(***************************************************************************)
EXTENDS Integers, Sequences, FiniteSets, TLC

\* ------------------------------------------------------------------ bounds
MaxTasks == 2       \* add_task calls made on the scheduler
MaxLoops == 2       \* start() calls made on the scheduler
MaxMinute == 2      \* the wall clock is followed up to this minute
MaxFailures == 1    \* task bodies that raise
MaxSpawned == 2     \* outstanding spawned invocations of one entry
MaxRefMinute == 125 \* croniter alone: the reference is within this many minutes
MaxStep == 7        \* croniter alone: the minute fields */1 .. */MaxStep
MaxBodies == 2      \* RabbitMQ: distinct message bodies published
MaxDeliveries == 4  \* RabbitMQ: deliveries made to the subscriptions
MaxSessions == 4    \* database: get_session() blocks entered

\* ------------------------------------------------------------------ time
\* An instant is a number of seconds since 2024-01-01T00:00:00.
SecondsPerMinute == 60
MinutesPerHour == 60
HoursPerDay == 24

\* The clock readings told apart: one per minute. A reading stands for every
\* instant of its minute: next_run is a whole minute and GetNext drops the
\* seconds, so the scheduler treats all instants of a minute alike.
Instants == {m * SecondsPerMinute : m \in 0..MaxMinute}

\* ------------------------------------------------------- the cron evaluator
\* A cron expression is the sequence of its whitespace-separated fields; a
\* field is `*`, `*/N`, a number, or a token that is none of these.
Star == [kind |-> "star", n |-> 0]
Step(k) == [kind |-> "step", n |-> k]
Lit(k) == [kind |-> "lit", n |-> k]
Bad == [kind |-> "bad", n |-> 0]

\* The argument cron_expression: None, or a string split into its fields.
None == [given |-> FALSE, fields |-> << >>]
Expr(fs) == [given |-> TRUE, fields |-> fs]
EmptyString == Expr(<< >>)
EveryMinute == Expr(<<Star, Star, Star, Star, Star>>)          \* "* * * * *"
EveryOther == Expr(<<Step(2), Star, Star, Star, Star>>)        \* "*/2 * * * *"
EveryFive == Expr(<<Step(5), Star, Star, Star, Star>>)         \* "*/5 * * * *"
Malformed == Expr(<<Bad, Bad, Bad>>)                           \* "x y z"

\* `if cron_expression:` - None and the empty string are falsy.
Truthy(c) == c.given /\ Len(c.fields) > 0

\* The range of each of the five fields.
FieldLow == <<0, 0, 1, 1, 0>>
FieldHigh == <<59, 23, 31, 12, 6>>

FieldOk(f, i) ==
    \/ f.kind = "star"
    \/ f.kind = "step" /\ f.n >= 1 /\ f.n <= FieldHigh[i]
    \/ f.kind = "lit" /\ f.n >= FieldLow[i] /\ f.n <= FieldHigh[i]

\* croniter.croniter(expr, t) raises for an expression it cannot parse.
ValidExpr(c) ==
    /\ Len(c.fields) = 5
    /\ \A i \in 1..5 : FieldOk(c.fields[i], i)

FieldMatch(f, v) ==
    CASE f.kind = "star" -> TRUE
      [] f.kind = "step" -> v % f.n = 0
      [] f.kind = "lit" -> v = f.n
      [] OTHER -> FALSE

\* Whether the whole minute m (minutes since the epoch, a midnight) is a
\* trigger of c. Day, month and weekday fields are `*` in every expression
\* the model registers.
\* MinuteMatches that counts minutes from the epoch, not within the hour.
MinuteMatchesAbsolute(c, m) ==
    /\ FieldMatch(c.fields[1], m)
    /\ FieldMatch(c.fields[2], (m \div MinutesPerHour) % HoursPerDay)

MinuteMatches(c, m) ==
    /\ FieldMatch(c.fields[1], m % MinutesPerHour)
    /\ FieldMatch(c.fields[2], (m \div MinutesPerHour) % HoursPerDay)

RECURSIVE FirstMatchFrom(_, _)
FirstMatchFrom(c, m) ==
    IF MinuteMatches(c, m) THEN m ELSE FirstMatchFrom(c, m + 1)

\* croniter.croniter(c, t).get_next(datetime): the first trigger strictly
\* after t, a whole minute; the seconds of t play no part.
\* GetNext that takes the minute of t itself when it is a trigger.
GetNextInclusive(c, t) ==
    FirstMatchFrom(c, t \div SecondsPerMinute) * SecondsPerMinute

GetNext(c, t) ==
    FirstMatchFrom(c, (t \div SecondsPerMinute) + 1) * SecondsPerMinute


\* ------------------------------------------------------------------ state
TaskIds == 1..MaxTasks          \* the task objects handed to add_task
LoopIds == 1..MaxLoops          \* the start() calls, in call order
Positions == 1..MaxTasks        \* indexes into self.tasks

\* What the caller may pass as cron_expression.
CronArgs == {None, EmptyString, EveryMinute, Malformed}

\* The exceptions a task body raises.
Exceptions == {"boom"}

VARIABLES
    tasks,              \* self.tasks: the task objects in add_task order
    running,            \* self.running
    task_schedules,     \* self.task_schedules: task -> {"cron", "next_run"}
    concurrent_tasks,   \* self.concurrent_tasks: task -> allow_concurrent
    now,                \* what datetime.now() returned when last called
    pc,                 \* where each start() coroutine stands
    current_time,       \* the local current_time of each start() coroutine
    idx,                \* the position the for loop of each coroutine is at
    schedule,           \* the local schedule of each coroutine: which dict
    spawned,            \* outstanding asyncio.create_task invocations, by position
    printed,            \* the lines print() wrote, oldest first: exc is the
                        \* exception a line shows; pos, the entry whose body
                        \* raised it, and via, how that body was run, are
                        \* history and not in the line
    unretrieved,        \* positions whose spawned invocation ended in an
                        \* exception that stays in its asyncio Task
    calls,              \* history: the add_task calls and how each ended
    fired,              \* history: positions each coroutine dispatched this tick
    raised,             \* history: positions whose awaited body raised this tick
    found,              \* history: for each position a coroutine took through
                        \* the scheduled branch this tick, the next_run it
                        \* read there
    stopped,            \* history: stop() was called, and start() not since
    late_ticks,         \* history: the ticks begun since that stop() call,
                        \* counted modulo 2
    late_fired,         \* history: an entry was dispatched since that stop()
                        \* call
    queue,              \* RabbitMQ: the message bodies ready in the queue
    deliveries,         \* RabbitMQ: one record per call of process_message,
                        \* its index the delivery_tag
    sessions            \* database: one record per get_session() block

vars == <<tasks, running, task_schedules, concurrent_tasks, now, pc,
          current_time, idx, schedule, spawned, printed, unretrieved, calls,
          fired, raised, found, stopped, late_ticks, late_fired,
          queue, deliveries, sessions>>

\* The state of the TaskScheduler and of its callers, and the state the
\* scheduler never touches.
scheduler == <<tasks, running, task_schedules, concurrent_tasks, now, pc,
               current_time, idx, schedule, spawned, printed, unretrieved,
               calls, fired, raised, found, stopped, late_ticks, late_fired>>
elsewhere == <<queue, deliveries, sessions>>

registry == <<tasks, task_schedules, concurrent_tasks>>
loopvars == <<pc, current_time, idx, schedule, fired, raised, found>>

\* The local `schedule` when the coroutine is not in the scheduled branch.
NoDict == 0

\* TaskScheduler.__init__ at instant t, with no start() call made yet.
InitAt(t) ==
    /\ tasks = << >>
    /\ running = FALSE
    /\ task_schedules = << >>
    /\ concurrent_tasks = << >>
    /\ now = t
    /\ pc = [l \in LoopIds |-> "none"]
    /\ current_time = [l \in LoopIds |-> 0]
    /\ idx = [l \in LoopIds |-> 0]
    /\ schedule = [l \in LoopIds |-> NoDict]
    /\ spawned = [i \in Positions |-> 0]
    /\ printed = << >>
    /\ unretrieved = {}
    /\ calls = << >>
    /\ fired = [l \in LoopIds |-> {}]
    /\ raised = [l \in LoopIds |-> {}]
    /\ found = [l \in LoopIds |-> << >>]
    /\ stopped = FALSE
    /\ late_ticks = 0
    /\ late_fired = FALSE
    /\ queue = {}
    /\ deliveries = << >>
    /\ sessions = << >>

Init == InitAt(0)

\* What a call of datetime.now() may return: the clock never runs backwards.
Clock == {t \in Instants : t >= now}

\* The task objects a caller can hand to add_task: one registered before, or
\* a new one (new task objects are told apart only by the order they come in).
Known == {tasks[i] : i \in 1..Len(tasks)}
Fresh == {t \in TaskIds : \A u \in TaskIds \ Known : t <= u}
TaskArgs == Known \cup (Fresh \ Known)

\* How many task bodies have raised.
Failures == Len(printed) + Cardinality(unretrieved)

\* The attributes of an element of self.tasks that the scheduler relies on:
\* add_task appends the task object it was given, as it is, and the loop
\* calls its execute().
Attributes(element) == {"execute"}

\* What a printed line shows of a failure: f"Error executing task: {e}".
Shown(p) == [exc |-> p.exc]

\* d[k] = v on a dict.
SetItem(d, k, v) == [x \in DOMAIN d \cup {k} |-> IF x = k THEN v ELSE d[x]]

\* ------------------------------------------------------------------ add_task
\* add_task that keeps the task and its policy but never writes a schedule
\* record.
AddTaskAtNoRecord(task, cron_expression, allow_concurrent, t) ==
    /\ now' = IF Truthy(cron_expression) THEN t ELSE now
    /\ tasks' = Append(tasks, task)
    /\ concurrent_tasks' = SetItem(concurrent_tasks, task, allow_concurrent)
    /\ calls' = Append(calls,
                [task |-> task, cron |-> cron_expression,
                 allow |-> allow_concurrent,
                 raised |-> Truthy(cron_expression) /\ ~ValidExpr(cron_expression)])
    /\ UNCHANGED <<task_schedules, running, loopvars, spawned, printed,
                   unretrieved, stopped, late_ticks>>
    /\ UNCHANGED <<late_fired, elsewhere>>

\* add_task that writes the policy record last, after the schedule record:
\* a call croniter makes raise leaves the appended task without one.
AddTaskAtPolicyLast(task, cron_expression, allow_concurrent, t) ==
    /\ now' = IF Truthy(cron_expression) THEN t ELSE now
    /\ tasks' = Append(tasks, task)
    /\ IF Truthy(cron_expression) /\ ~ValidExpr(cron_expression)
       THEN UNCHANGED concurrent_tasks
       ELSE concurrent_tasks' = SetItem(concurrent_tasks, task, allow_concurrent)
    /\ IF Truthy(cron_expression) /\ ValidExpr(cron_expression)
       THEN task_schedules' = SetItem(task_schedules, task,
                [cron |-> cron_expression,
                 next_run |-> GetNext(cron_expression, now'),
                 obj |-> Len(tasks) + 1])
       ELSE UNCHANGED task_schedules
    /\ calls' = Append(calls,
                [task |-> task, cron |-> cron_expression,
                 allow |-> allow_concurrent,
                 raised |-> Truthy(cron_expression) /\ ~ValidExpr(cron_expression)])
    /\ UNCHANGED <<running, loopvars, spawned, printed, unretrieved, stopped,
                   late_ticks>>
    /\ UNCHANGED <<late_fired, elsewhere>>

\* One call of add_task in which datetime.now(), if called, returns t: the
\* append and the policy record come first, the schedule record only if
\* croniter accepts the expression. The clock is read for croniter's second
\* argument, before croniter looks at the expression.
AddTaskAt(task, cron_expression, allow_concurrent, t) ==
    /\ now' = IF Truthy(cron_expression) THEN t ELSE now
    /\ tasks' = Append(tasks, task)
    /\ concurrent_tasks' = SetItem(concurrent_tasks, task, allow_concurrent)
    /\ IF Truthy(cron_expression) /\ ValidExpr(cron_expression)
       THEN task_schedules' = SetItem(task_schedules, task,
                [cron |-> cron_expression,
                 next_run |-> GetNext(cron_expression, now'),
                 obj |-> Len(tasks) + 1])
       ELSE UNCHANGED task_schedules
    /\ calls' = Append(calls,
                [task |-> task, cron |-> cron_expression,
                 allow |-> allow_concurrent,
                 raised |-> Truthy(cron_expression) /\ ~ValidExpr(cron_expression)])
    /\ UNCHANGED <<running, loopvars, spawned, printed, unretrieved, stopped,
                   late_ticks>>
    /\ UNCHANGED <<late_fired, elsewhere>>

\* One call of add_task, made when the clock shows any instant not yet past.
AddTask(task, cron_expression, allow_concurrent) ==
    /\ Len(tasks) < MaxTasks
    /\ IF Truthy(cron_expression)
       THEN \E t \in Clock : AddTaskAt(task, cron_expression, allow_concurrent, t)
       ELSE AddTaskAt(task, cron_expression, allow_concurrent, now)

\* ------------------------------------------------------------------ start
\* The for loop of start() from position i on, with current_time = ct, run
\* until the coroutine suspends: at `await task.execute()` of an entry whose
\* policy record is False, or, past the last entry, at asyncio.sleep(1).
\* An entry whose policy record is True is handed to asyncio.create_task and
\* the loop goes on. sched, sp and fd are task_schedules, spawned and fired
\* as the entries before i left them, fn what found holds of them.
\* Scan whose scheduled branch dispatches only when current_time is past
\* next_run.
RECURSIVE ScanStrict(_, _, _, _, _, _)
ScanStrict(i, ct, sched, sp, fd, fn) ==
    IF i > Len(tasks)
    THEN [pc |-> "sleeping", idx |-> i, schedule |-> NoDict,
          sched |-> sched, sp |-> sp, fd |-> fd, fn |-> fn]
    ELSE LET task == tasks[i] IN
         IF task \in DOMAIN sched
         THEN LET read == SetItem(fn, i, sched[task].next_run) IN
              IF ct > sched[task].next_run
              THEN IF concurrent_tasks[task]
                   THEN ScanStrict(i + 1, ct,
                             [sched EXCEPT ![task].next_run =
                                               GetNext(sched[task].cron, ct)],
                             [sp EXCEPT ![i] = @ + 1], fd \cup {i}, read)
                   ELSE [pc |-> "awaiting", idx |-> i,
                         schedule |-> sched[task].obj,
                         sched |-> sched, sp |-> sp, fd |-> fd \cup {i},
                         fn |-> read]
              ELSE ScanStrict(i + 1, ct, sched, sp, fd, read)
         ELSE IF concurrent_tasks[task]
              THEN ScanStrict(i + 1, ct, sched, [sp EXCEPT ![i] = @ + 1],
                              fd \cup {i}, fn)
              ELSE [pc |-> "awaiting", idx |-> i, schedule |-> NoDict,
                    sched |-> sched, sp |-> sp, fd |-> fd \cup {i}, fn |-> fn]

RECURSIVE Scan(_, _, _, _, _, _)
Scan(i, ct, sched, sp, fd, fn) ==
    IF i > Len(tasks)
    THEN [pc |-> "sleeping", idx |-> i, schedule |-> NoDict,
          sched |-> sched, sp |-> sp, fd |-> fd, fn |-> fn]
    ELSE LET task == tasks[i] IN
         IF task \in DOMAIN sched
         THEN LET read == SetItem(fn, i, sched[task].next_run) IN
              IF ct >= sched[task].next_run
              THEN IF concurrent_tasks[task]
                   THEN Scan(i + 1, ct,
                             [sched EXCEPT ![task].next_run =
                                               GetNext(sched[task].cron, ct)],
                             [sp EXCEPT ![i] = @ + 1], fd \cup {i}, read)
                   ELSE [pc |-> "awaiting", idx |-> i,
                         schedule |-> sched[task].obj,
                         sched |-> sched, sp |-> sp, fd |-> fd \cup {i},
                         fn |-> read]
              ELSE Scan(i + 1, ct, sched, sp, fd, read)
         ELSE IF concurrent_tasks[task]
              THEN Scan(i + 1, ct, sched, [sp EXCEPT ![i] = @ + 1],
                        fd \cup {i}, fn)
              ELSE [pc |-> "awaiting", idx |-> i, schedule |-> NoDict,
                    sched |-> sched, sp |-> sp, fd |-> fd \cup {i}, fn |-> fn]

\* Coroutine l runs on from position i until it suspends.
Resume(l, i, sched, fd, fn) ==
    LET r == Scan(i, current_time'[l], sched, spawned, fd, fn) IN
    /\ \A k \in Positions : r.sp[k] <= MaxSpawned
    /\ pc' = [pc EXCEPT ![l] = r.pc]
    /\ idx' = [idx EXCEPT ![l] = r.idx]
    /\ schedule' = [schedule EXCEPT ![l] = r.schedule]
    /\ task_schedules' = r.sched
    /\ spawned' = r.sp
    /\ fired' = [fired EXCEPT ![l] = r.fd]
    /\ found' = [found EXCEPT ![l] = r.fn]
    /\ late_fired' = (late_fired \/ (stopped /\ r.fd # fd))

\* One pass of the while body begins: current_time is read, the for loop
\* starts at the first entry.
BeginTick(l) ==
    /\ late_ticks' = IF stopped THEN (late_ticks + 1) % 2 ELSE late_ticks
    /\ raised' = [raised EXCEPT ![l] = {}]
    /\ current_time' = [current_time EXCEPT ![l] = now']
    /\ Resume(l, 1, task_schedules, {}, << >>)

\* A caller calls start(): the coroutine exists and has not run yet.
StartCall(l) ==
    /\ pc[l] = "none"
    /\ \A k \in LoopIds : k < l => pc[k] # "none"
    /\ pc' = [pc EXCEPT ![l] = "created"]
    /\ stopped' = FALSE
    /\ late_ticks' = 0
    /\ UNCHANGED <<registry, running, now, current_time, idx, schedule,
                   spawned, printed, unretrieved, calls, fired, raised,
                   found>>
    /\ late_fired' = FALSE
    /\ UNCHANGED elsewhere

\* The coroutine's first run: self.running = True, then the first tick.
FirstStep(l) ==
    /\ pc[l] = "created"
    /\ running' = TRUE
    /\ now' \in Clock
    /\ BeginTick(l)
    /\ UNCHANGED <<tasks, concurrent_tasks, printed, unretrieved, calls, stopped>>
    /\ UNCHANGED elsewhere

\* WakeRunning driven by a timer of its own: the next tick begins a second
\* later whether or not the for loop is still at an await.
WakeRunningWhileAwaiting(l) ==
    /\ pc[l] \in {"sleeping", "awaiting"}
    /\ running
    /\ now' \in Clock
    /\ BeginTick(l)
    /\ UNCHANGED <<tasks, concurrent_tasks, running, printed, unretrieved,
                   calls, stopped>>
    /\ UNCHANGED elsewhere

\* asyncio.sleep(1) is over: `while self.running` is read again and found
\* set, so the next tick begins. One second later the clock may still be in
\* the same minute.
WakeRunning(l) ==
    /\ pc[l] = "sleeping"
    /\ running
    /\ now' \in Clock
    /\ BeginTick(l)
    /\ UNCHANGED <<tasks, concurrent_tasks, running, printed, unretrieved,
                   calls, stopped>>
    /\ UNCHANGED elsewhere

\* asyncio.sleep(1) is over and `while self.running` is found cleared:
\* start() returns.
WakeStopped(l) ==
    /\ pc[l] = "sleeping"
    /\ ~running
    /\ pc' = [pc EXCEPT ![l] = "returned"]
    /\ current_time' = [current_time EXCEPT ![l] = 0]
    /\ idx' = [idx EXCEPT ![l] = 0]
    /\ fired' = [fired EXCEPT ![l] = {}]
    /\ found' = [found EXCEPT ![l] = << >>]
    /\ raised' = [raised EXCEPT ![l] = {}]
    /\ UNCHANGED <<registry, running, now, schedule, spawned, printed,
                   unretrieved, calls, stopped, late_ticks>>
    /\ UNCHANGED <<late_fired, elsewhere>>

\* BodyReturns whose for loop reads self.running before each entry and breaks
\* once stop() has cleared it.
BodyReturnsChecksFlag(l) ==
    /\ pc[l] = "awaiting"
    /\ LET task == tasks[idx[l]]
           sched == IF /\ schedule[l] # NoDict
                       /\ task_schedules[task].obj = schedule[l]
                    THEN [task_schedules EXCEPT ![task].next_run =
                              GetNext(task_schedules[task].cron, current_time[l])]
                    ELSE task_schedules
       IN  /\ UNCHANGED <<current_time, raised>>
           /\ Resume(l, IF running THEN idx[l] + 1 ELSE Len(tasks) + 1, sched,
                     fired[l], found[l])
    /\ UNCHANGED <<tasks, concurrent_tasks, running, now, printed,
                   unretrieved, calls, stopped, late_ticks>>
    /\ UNCHANGED elsewhere

\* The awaited body returns. In the scheduled branch the local dict gets its
\* new next_run, which shows in task_schedules if that still holds this dict.
BodyReturns(l) ==
    /\ pc[l] = "awaiting"
    /\ LET task == tasks[idx[l]]
           sched == IF /\ schedule[l] # NoDict
                       /\ task_schedules[task].obj = schedule[l]
                    THEN [task_schedules EXCEPT ![task].next_run =
                              GetNext(task_schedules[task].cron, current_time[l])]
                    ELSE task_schedules
       IN  /\ UNCHANGED <<current_time, raised>>
           /\ Resume(l, idx[l] + 1, sched, fired[l], found[l])
    /\ UNCHANGED <<tasks, concurrent_tasks, running, now, printed,
                   unretrieved, calls, stopped, late_ticks>>
    /\ UNCHANGED elsewhere

\* BodyRaises without the try/except around the dispatch: the exception
\* leaves start().
BodyRaisesUncaught(l, e) ==
    /\ pc[l] = "awaiting"
    /\ Failures < MaxFailures
    /\ raised' = [raised EXCEPT ![l] = @ \cup {idx[l]}]
    /\ pc' = [pc EXCEPT ![l] = "returned"]
    /\ UNCHANGED <<registry, running, now, current_time, idx, schedule,
                   spawned, printed, unretrieved, calls, fired, found,
                   stopped, late_ticks>>
    /\ UNCHANGED <<late_fired, elsewhere>>

\* BodyRaises with the try/except around the whole for loop: the exception is
\* printed, the rest of self.tasks is left for the next tick and the
\* coroutine sleeps.
BodyRaisesEndsTick(l, e) ==
    /\ pc[l] = "awaiting"
    /\ Failures < MaxFailures
    /\ printed' = Append(printed, [exc |-> e, pos |-> idx[l], via |-> "await"])
    /\ raised' = [raised EXCEPT ![l] = @ \cup {idx[l]}]
    /\ UNCHANGED current_time
    /\ Resume(l, Len(tasks) + 1, task_schedules, fired[l], found[l])
    /\ UNCHANGED <<tasks, concurrent_tasks, running, now, unretrieved,
                   calls, stopped, late_ticks>>
    /\ UNCHANGED elsewhere

\* The awaited body raises an Exception: the except clause prints it and the
\* for loop goes on with the next entry.
BodyRaises(l, e) ==
    /\ pc[l] = "awaiting"
    /\ Failures < MaxFailures
    /\ printed' = Append(printed, [exc |-> e, pos |-> idx[l], via |-> "await"])
    /\ raised' = [raised EXCEPT ![l] = @ \cup {idx[l]}]
    /\ UNCHANGED current_time
    /\ Resume(l, idx[l] + 1, task_schedules, fired[l], found[l])
    /\ UNCHANGED <<tasks, concurrent_tasks, running, now, unretrieved,
                   calls, stopped, late_ticks>>
    /\ UNCHANGED elsewhere

\* ------------------------------------------------------------------ stop
\* stop() that also cancels the start() coroutines, aborting the body one
\* awaits.
StopCancelling ==
    /\ running' = FALSE
    /\ stopped' = TRUE
    /\ late_ticks' = 0
    /\ pc' = [l \in LoopIds |->
                IF pc[l] \in {"awaiting", "sleeping"} THEN "returned" ELSE pc[l]]
    /\ UNCHANGED <<registry, now, current_time, idx, schedule, fired, raised,
                   found, spawned, printed, unretrieved, calls>>
    /\ late_fired' = FALSE
    /\ UNCHANGED elsewhere

\* stop() that also forgets the schedule records.
StopForgetting ==
    /\ running' = FALSE
    /\ stopped' = TRUE
    /\ late_ticks' = 0
    /\ task_schedules' = << >>
    /\ UNCHANGED <<tasks, concurrent_tasks, now, loopvars, spawned, printed,
                   unretrieved, calls>>
    /\ late_fired' = FALSE
    /\ UNCHANGED elsewhere

\* stop(): the flag is cleared and nothing else is touched.
Stop ==
    /\ running' = FALSE
    /\ stopped' = TRUE
    /\ late_ticks' = 0
    /\ UNCHANGED <<registry, now, loopvars, spawned, printed, unretrieved, calls>>
    /\ late_fired' = FALSE
    /\ UNCHANGED elsewhere

\* ------------------------------------------------------- spawned task bodies
\* An invocation handed to asyncio.create_task ends; nothing awaits its Task.
SpawnedReturns(i) ==
    /\ spawned[i] > 0
    /\ spawned' = [spawned EXCEPT ![i] = @ - 1]
    /\ UNCHANGED <<registry, running, now, loopvars, printed, unretrieved,
                   calls, stopped, late_ticks>>
    /\ UNCHANGED <<late_fired, elsewhere>>

SpawnedRaises(i) ==
    /\ spawned[i] > 0
    /\ Failures < MaxFailures
    /\ spawned' = [spawned EXCEPT ![i] = @ - 1]
    /\ unretrieved' = unretrieved \cup {i}
    /\ UNCHANGED <<registry, running, now, loopvars, printed, calls, stopped,
                   late_ticks>>
    /\ UNCHANGED <<late_fired, elsewhere>>

Next ==
    \/ \E task \in TaskArgs, c \in CronArgs, a \in BOOLEAN : AddTask(task, c, a)
    \/ \E l \in LoopIds : StartCall(l)
    \/ \E l \in LoopIds : FirstStep(l)
    \/ \E l \in LoopIds : WakeRunning(l)
    \/ \E l \in LoopIds : WakeStopped(l)
    \/ \E l \in LoopIds : BodyReturns(l)
    \/ \E l \in LoopIds, e \in Exceptions : BodyRaises(l, e)
    \/ Stop
    \/ \E i \in Positions : SpawnedReturns(i)
    \/ \E i \in Positions : SpawnedRaises(i)

Spec == Init /\ [][Next]_vars

\* The coroutines of the event loop are run in turn, every awaited task body
\* ends, and so does every spawned one.
LiveSpec ==
    /\ Spec
    /\ \A l \in LoopIds : WF_vars(FirstStep(l))
    /\ \A l \in LoopIds : WF_vars(WakeRunning(l) \/ WakeStopped(l))
    /\ \A l \in LoopIds : WF_vars(BodyReturns(l) \/ \E e \in Exceptions : BodyRaises(l, e))
    /\ \A i \in Positions : WF_vars(SpawnedReturns(i) \/ SpawnedRaises(i))

\* ------------------------------------------------------ croniter on its own
\* The instants datetime.now() may show when add_task is called: any second
\* of any minute.
RefSeconds == {0, 1, 30, 59}
RefInstants ==
    {m * SecondsPerMinute + s : m \in 0..MaxRefMinute, s \in RefSeconds}

\* "*/N * * * *"
StepExprs == {Expr(<<Step(n), Star, Star, Star, Star>>) : n \in 1..MaxStep}

\* A scheduler made at any instant.
CronInit == \E t \in RefInstants : InitAt(t)

\* Its first add_task call, made at that instant with a step expression.
CronRegister(c) ==
    /\ tasks = << >>
    /\ AddTaskAt(1, c, FALSE, now)

CronNext == \E c \in StepExprs : CronRegister(c)

CronSpec == CronInit /\ [][CronNext]_vars

\* ------------------------------------------------------------------ RabbitMQ
\* RabbitMQClient.subscribe and RabbitMQManager.subscribe define the same
\* process_message. A delivery is one call of it by pika, for a message body
\* taken from the queue, under a delivery_tag.
Bodies == 1..MaxBodies

\* One call made by process_message: the callback with the body, logger.error,
\* or basic_ack / basic_nack on the channel with the delivery_tag.
Call(op, tag, body, requeue) ==
    [op |-> op, delivery_tag |-> tag, body |-> body, requeue |-> requeue]

\* How the callback of a subscription ends for a delivery; a subscription
\* made without a callback (the default, None) has none to run.
Endings(callback) == IF callback THEN {"returns", "raises"} ELSE {"absent"}

\* process_message that acknowledges first and runs the callback after.
ProcessMessageAckFirst(callback, ending, tag, body) ==
    <<Call("basic_ack", tag, 0, FALSE)>>
        \o (IF callback THEN <<Call("callback", 0, body, FALSE)>> ELSE << >>)
        \o (IF ending = "raises"
            THEN <<Call("logger.error", 0, 0, FALSE),
                   Call("basic_nack", tag, 0, TRUE)>>
            ELSE << >>)

\* The calls process_message makes, in order: `if callback: callback(body)`,
\* then basic_ack; an Exception raised on the way is logged and answered by
\* basic_nack(requeue=True).
ProcessMessage(callback, ending, tag, body) ==
    (IF callback THEN <<Call("callback", 0, body, FALSE)>> ELSE << >>)
        \o (IF ending = "raises"
            THEN <<Call("logger.error", 0, 0, FALSE),
                   Call("basic_nack", tag, 0, TRUE)>>
            ELSE <<Call("basic_ack", tag, 0, FALSE)>>)

\* What the broker does with a delivered message: the first basic_ack or
\* basic_nack for its tag settles it.
Settled(log, tag) ==
    {k \in 1..Len(log) :
        /\ log[k].op \in {"basic_ack", "basic_nack"}
        /\ log[k].delivery_tag = tag}
Requeued(log, tag) ==
    \E k \in Settled(log, tag) :
        /\ \A j \in Settled(log, tag) : k <= j
        /\ log[k].op = "basic_nack" /\ log[k].requeue

\* publish_message: a body is routed to the queue.
PublishMessage(body) ==
    /\ body \notin queue
    /\ queue' = queue \cup {body}
    /\ UNCHANGED <<deliveries, sessions, scheduler>>

\* pika delivers a message of the queue to a subscription and calls its
\* process_message; a message nacked with requeue is back in the queue.
Consume(body, callback, ending) ==
    /\ body \in queue
    /\ Len(deliveries) < MaxDeliveries
    /\ LET tag == Len(deliveries) + 1
           log == ProcessMessage(callback, ending, tag, body)
       IN  /\ deliveries' = Append(deliveries,
                   [body |-> body, callback |-> callback, ending |-> ending,
                    log |-> log])
           /\ queue' = IF Requeued(log, tag) THEN queue ELSE queue \ {body}
    /\ UNCHANGED <<sessions, scheduler>>

MqNext ==
    \/ \E body \in Bodies : PublishMessage(body)
    \/ \E body \in Bodies, callback \in BOOLEAN :
          \E ending \in Endings(callback) : Consume(body, callback, ending)

MqSpec == Init /\ [][MqNext]_vars

\* ------------------------------------------------------------------ database
\* The calls get_session makes on the session once the managed block is
\* over, and the exception that leaves the with statement. The block returns
\* or raises an Exception; session.commit() succeeds or raises (autoflush is
\* off, so what the block added is first sent to the database there).
\* get_session that closes the session after the commit, without a finally.
GetSessionNoFinally(block, commit) ==
    IF block = "raises"
    THEN [calls |-> <<"rollback">>, leaves |-> "block error"]
    ELSE IF commit = "raises"
         THEN [calls |-> <<"commit", "rollback">>, leaves |-> "commit error"]
         ELSE [calls |-> <<"commit", "close">>, leaves |-> "nothing"]

GetSession(block, commit) ==
    IF block = "raises"
    THEN [calls |-> <<"rollback", "close">>, leaves |-> "block error"]
    ELSE IF commit = "raises"
         THEN [calls |-> <<"commit", "rollback", "close">>,
               leaves |-> "commit error"]
         ELSE [calls |-> <<"commit", "close">>, leaves |-> "nothing"]

\* `with db.get_session() as session:` is entered: self._SessionLocal() makes
\* the session and the generator yields it.
EnterSession ==
    /\ Len(sessions) < MaxSessions
    /\ sessions' = Append(sessions,
            [block |-> "running", commit |-> "untried", open |-> TRUE,
             calls |-> << >>, leaves |-> "nothing"])
    /\ UNCHANGED <<queue, deliveries, scheduler>>

\* The managed block of session s is over and the generator runs to its end.
ExitSession(s, block, commit) ==
    /\ s \in 1..Len(sessions)
    /\ sessions[s].block = "running"
    /\ LET r == GetSession(block, commit) IN
       sessions' = [sessions EXCEPT ![s] =
            [block |-> block,
             commit |-> IF block = "returns" THEN commit ELSE "untried",
             open |-> r.calls = << >> \/ r.calls[Len(r.calls)] # "close",
             calls |-> r.calls, leaves |-> r.leaves]]
    /\ UNCHANGED <<queue, deliveries, scheduler>>

DbNext ==
    \/ EnterSession
    \/ \E s \in 1..MaxSessions, block, commit \in {"returns", "raises"} :
          ExitSession(s, block, commit)

DbSpec == Init /\ [][DbNext]_vars

\* ------------------------------------------------------------------ claims
\* What the add_task call that made position i asked for.
Registered(i) == i \in 1..Len(calls) /\ ~calls[i].raised
RegisteredExclusive(i) == Registered(i) /\ ~calls[i].allow
RegisteredConcurrent(i) == Registered(i) /\ calls[i].allow
RegisteredUnscheduled(i) == Registered(i) /\ ~calls[i].cron.given

\* The start() coroutines that are scanning, awaiting a body or sleeping
\* between ticks.
ActiveLoops == {l \in LoopIds : pc[l] \in {"awaiting", "sleeping"}}

\* The invocations of the entry at position i that have begun and not ended.
InFlight(i) ==
    Cardinality({l \in LoopIds : pc[l] = "awaiting" /\ idx[l] = i}) + spawned[i]

\* C1: an add_task call that raises on a malformed cron expression leaves
\* tasks, task_schedules and concurrent_tasks as they were before the call.
C1_RejectedAddLeavesNoState ==
    [][(Len(calls') = Len(calls) + 1 /\ calls'[Len(calls')].raised)
           => UNCHANGED registry]_vars

\* C2: never are two start() coroutines active on the scheduler at once.
C2_AtMostOneLoop == Cardinality(ActiveLoops) <= 1

\* C4: once the awaited body of a due scheduled entry has raised in a tick,
\* the entry's next_run is later than the current_time of that tick.
C4_NextRunAdvancesOnFailure ==
    \A l \in LoopIds : \A i \in raised[l] :
        tasks[i] \in DOMAIN task_schedules
            => task_schedules[tasks[i]].next_run > current_time[l]

\* C5: an entry registered with allow_concurrent=False never has two
\* invocations in flight.
C5_ExclusiveSingleFlight ==
    \A i \in 1..Len(tasks) : RegisteredExclusive(i) => InFlight(i) <= 1

\* The for loop of coroutine l went on from position i to where it stands
\* now: each entry between was dispatched or was not due, and the coroutine
\* is at the await of a later entry or, past the last entry, asleep.
WentOnFrom(l, i) ==
    /\ idx'[l] > i
    /\ pc'[l] \in {"awaiting", "sleeping"}
    /\ pc'[l] = "sleeping" => idx'[l] = Len(tasks) + 1
    /\ pc'[l] = "awaiting" => idx'[l] <= Len(tasks) /\ idx'[l] \in fired'[l]
    /\ \A j \in (i + 1)..(idx'[l] - 1) :
          \/ j \in fired'[l]
          \/ /\ tasks[j] \in DOMAIN task_schedules'
             /\ current_time[l] < task_schedules'[tasks[j]].next_run

\* C3: when a task body raises, the start() coroutine that awaited it neither
\* returns nor skips an entry: its for loop goes on with the next entry of
\* the same tick; when a spawned body raises, no start() coroutine moves.
C3_FailureContained ==
    [][/\ \A l \in LoopIds :
              raised'[l] \ raised[l] # {}
                  => /\ pc[l] = "awaiting"
                     /\ current_time'[l] = current_time[l]
                     /\ WentOnFrom(l, idx[l])
       /\ unretrieved' # unretrieved => UNCHANGED <<pc, idx, running>>]_vars

\* C3's case: a body raised at one position and a later position was
\* dispatched in the same tick.
C3_Witness ==
    \E l \in LoopIds : \E i \in raised[l] : \E j \in fired[l] : j > i

\* C6: an awaited body leaves the await only by returning or raising, so a
\* stop() call leaves it in flight; a start() coroutine that has returned
\* stays returned and dispatches nothing.
C6_StopLetsBodyFinish ==
    [][\A l \in LoopIds :
          /\ (pc[l] = "awaiting" /\ ~(pc'[l] = "awaiting" /\ idx'[l] = idx[l]))
                => (BodyReturns(l) \/ \E e \in Exceptions : BodyRaises(l, e))
          /\ pc[l] = "returned"
                => pc'[l] = "returned" /\ fired'[l] = {} /\ idx'[l] = idx[l]]_vars

\* C6's case: stop() was called while the body that coroutine l awaits, the
\* first it dispatched in this tick, was executing.
C6_Witness ==
    \E l \in LoopIds :
        pc[l] = "awaiting" /\ fired[l] = {idx[l]} /\ stopped /\ ~running

\* C7: once stop() has been called, every start() call made before it returns,
\* unless start() is called again.
C7_StopEndsStart ==
    \A l \in LoopIds :
        (stopped /\ pc[l] # "none") ~> (pc[l] = "returned" \/ ~stopped)

\* C8: in every tick of a start() coroutine, each entry registered without a
\* cron expression that the for loop has passed was dispatched.
C8_UnscheduledEveryTick ==
    \A l \in ActiveLoops : \A i \in 1..(idx[l] - 1) :
        RegisteredUnscheduled(i) => i \in fired[l]

\* C9: no start() coroutine is suspended at the await of an entry that was
\* registered with allow_concurrent=True.
C9_ConcurrentNeverAwaited ==
    \A l \in LoopIds : pc[l] = "awaiting" => ~RegisteredConcurrent(idx[l])

\* C10: a spawned body that raised is in the end reported by a printed line.
C10_SpawnedFailurePrinted ==
    \A i \in Positions :
        (i \in unretrieved)
            ~> (\E k \in 1..Len(printed) :
                    printed[k].pos = i /\ printed[k].via = "spawn")

\* An entry registered with a schedule: the add_task call that made position
\* i returned and was given an expression that is not falsy.
RegisteredScheduled(i) == Registered(i) /\ Truthy(calls[i].cron)

\* C11: every entry registered with a schedule has a schedule record whose
\* next_run is an instant, from its add_task call on and after every firing.
C11_ScheduledHasNextRun ==
    \A i \in 1..Len(tasks) :
        RegisteredScheduled(i)
            => /\ tasks[i] \in DOMAIN task_schedules
               /\ task_schedules[tasks[i]].next_run \in Nat

\* C11's case: the awaited body of an entry registered with a schedule has
\* raised.
C11_Witness ==
    \E l \in LoopIds : \E i \in raised[l] : RegisteredScheduled(i)

\* Coroutine l takes a step.
LoopStep(l) ==
    \/ FirstStep(l)
    \/ WakeRunning(l)
    \/ BodyReturns(l)
    \/ \E e \in Exceptions : BodyRaises(l, e)

\* C12: a next_run written by add_task is later than the instant the call
\* read from the clock, and one written by a start() coroutine is later than
\* the current_time of its tick.
C12_NextRunAfterReference ==
    [][\A task \in DOMAIN task_schedules' :
          (\/ task \notin DOMAIN task_schedules
           \/ task_schedules'[task] # task_schedules[task])
              => \/ /\ Len(calls') > Len(calls)
                    /\ task_schedules'[task].next_run > now'
                 \/ \E l \in LoopIds :
                       /\ LoopStep(l)
                       /\ task_schedules'[task].next_run > current_time'[l]]_vars

\* C12's case: a scheduled entry fired in this tick, its body did not raise,
\* the for loop has gone past it and it is not due at the tick's current_time.
C12_Witness ==
    \E l \in ActiveLoops : \E i \in fired[l] \ raised[l] :
        /\ RegisteredScheduled(i)
        /\ idx[l] > i
        /\ task_schedules[tasks[i]].next_run > current_time[l]

\* C13: for "*/N * * * *" registered at instant now, next_run is a whole
\* minute later than now whose minute of the hour is a multiple of N, and no
\* whole minute between now and next_run has such a minute of the hour.
C13_StepNextTrigger ==
    \A task \in DOMAIN task_schedules :
        LET r == task_schedules[task]
            n == r.cron.fields[1].n
            next == r.next_run
        IN  r.cron \in StepExprs
                => /\ next % SecondsPerMinute = 0
                   /\ next > now
                   /\ ((next \div SecondsPerMinute) % MinutesPerHour) % n = 0
                   /\ \A m \in 0..((next \div SecondsPerMinute) - 1) :
                         m * SecondsPerMinute > now
                             => (m % MinutesPerHour) % n # 0

\* C13's case: "*/5 * * * *" registered at 00:00:00 has next_run 00:05:00.
C13_Witness ==
    /\ now = 0
    /\ \E task \in DOMAIN task_schedules :
          /\ task_schedules[task].cron = EveryFive
          /\ task_schedules[task].next_run = 5 * SecondsPerMinute

\* The positions coroutine l dispatches in this step.
NewlyFired(l) ==
    IF FirstStep(l) \/ WakeRunning(l) THEN fired'[l] ELSE fired'[l] \ fired[l]

\* C14: within a tick, an entry is dispatched after every entry dispatched
\* earlier in the tick was registered before it, and the body of an entry
\* registered with allow_concurrent=False has completed before a later entry
\* is dispatched: the two are never dispatched in one run of the coroutine.
C14_RegistrationOrder ==
    [][\A l \in LoopIds : \A j \in NewlyFired(l) :
          /\ \A i \in fired'[l] \ NewlyFired(l) : i < j
          /\ \A i \in fired'[l] :
                (i < j /\ RegisteredExclusive(i)) => i \notin NewlyFired(l)]_vars

\* An add_task call returns in this step.
AddReturns == Len(calls') > Len(calls) /\ ~calls'[Len(calls')].raised

\* C16: an add_task call that returns adds one entry and leaves the policy
\* and the schedule record of every entry registered before as they were.
C16_EntriesIndependent ==
    [][AddReturns
          => /\ Len(tasks') = Len(tasks) + 1
             /\ \A i \in 1..Len(tasks) :
                   Registered(i)
                       => /\ concurrent_tasks'[tasks[i]] = concurrent_tasks[tasks[i]]
                          /\ (tasks[i] \in DOMAIN task_schedules')
                                = (tasks[i] \in DOMAIN task_schedules)
                          /\ tasks[i] \in DOMAIN task_schedules
                                => task_schedules'[tasks[i]]
                                       = task_schedules[tasks[i]]]_vars

\* C17: an add_task call that returns adds one element to self.tasks, and
\* that element has the attributes func and cron_expression.
C17_ElementIsEntryRecord ==
    [][AddReturns
          => /\ Len(tasks') = Len(tasks) + 1
             /\ {"func", "cron_expression"}
                    \subseteq Attributes(tasks'[Len(tasks')])]_vars

\* C18: no position made by an add_task call that raised is ever dispatched.
C18_RejectedNeverDispatched ==
    \A l \in LoopIds : \A i \in fired[l] : ~calls[i].raised

\* C20: every printed line shows the position of the entry whose body raised
\* and the current_time of the tick that dispatched it.
C20_ReportNamesEntryAndTick ==
    \A k \in 1..Len(printed) :
        LET line == Shown(printed[k]) IN
        /\ {"pos", "current_time"} \subseteq DOMAIN line
        /\ line.pos = printed[k].pos

\* The tick coroutine l begins in this step goes over self.tasks from the
\* first entry: every entry the for loop has passed was dispatched or is a
\* scheduled entry not yet due.
TickCovers(l) ==
    /\ pc'[l] \in {"awaiting", "sleeping"}
    /\ pc'[l] = "sleeping" => idx'[l] = Len(tasks) + 1
    /\ pc'[l] = "awaiting" => idx'[l] \in fired'[l]
    /\ \A j \in 1..(idx'[l] - 1) :
          \/ j \in fired'[l]
          \/ /\ tasks[j] \in DOMAIN task_schedules'
             /\ current_time'[l] < task_schedules'[tasks[j]].next_run

\* C19: no start() coroutine runs before the first start() call; stop(), the
\* return of a start() coroutine and a start() call leave self.tasks, the
\* schedule records and the policy records as they are; and the first step of
\* a start() call made after another has returned sets self.running and ticks
\* over the same entries, changing only the next_run of entries it fires.
C19_RestartKeepsRegistry ==
    [][/\ (\A l \in LoopIds : pc[l] = "none") => ~running
       /\ (Stop \/ \E l \in LoopIds : WakeStopped(l) \/ StartCall(l))
             => UNCHANGED registry
       /\ \A l \in LoopIds :
             (FirstStep(l) /\ \E k \in LoopIds : pc[k] = "returned")
                => /\ running'
                   /\ UNCHANGED <<tasks, concurrent_tasks>>
                   /\ TickCovers(l)
                   /\ DOMAIN task_schedules' = DOMAIN task_schedules
                   /\ \A task \in DOMAIN task_schedules :
                         task_schedules'[task] # task_schedules[task]
                             => \E i \in fired'[l] : tasks[i] = task]_vars

\* C19's case: one start() coroutine has returned after a stop(), start()
\* was called again, and that coroutine is running and has dispatched an
\* entry of a registry that holds a schedule record.
C19_Witness ==
    \E l \in ActiveLoops : \E k \in LoopIds :
        /\ pc[k] = "returned"
        /\ running /\ ~stopped
        /\ fired[l] # {}
        /\ DOMAIN task_schedules # {}

\* C15: in every tick, a position taken through the scheduled branch was
\* dispatched if and only if the tick's current_time had reached the next_run
\* read when the position was evaluated.
C15_DispatchedIffDue ==
    \A l \in LoopIds : \A i \in DOMAIN found[l] :
        (i \in fired[l]) = (current_time[l] >= found[l][i])

\* C15's case: in one tick an entry whose next_run is the tick's current_time
\* was dispatched and an entry whose next_run is later was not.
C15_Witness ==
    \E l \in LoopIds : \E i, j \in DOMAIN found[l] :
        /\ RegisteredScheduled(i) /\ RegisteredScheduled(j)
        /\ i \in fired[l] /\ found[l][i] = current_time[l]
        /\ j \notin fired[l] /\ found[l][j] > current_time[l]

\* C21: the next_run of an entry registered with a schedule changes only in
\* the run of a start() coroutine that follows a firing of that entry: when
\* its awaited body returns, or right after it was handed to
\* asyncio.create_task.
C21_NextRunFrame ==
    [][\A i \in 1..Len(tasks) :
          (/\ RegisteredScheduled(i)
           /\ task_schedules'[tasks[i]].next_run
                  # task_schedules[tasks[i]].next_run)
              => \E l \in LoopIds :
                    \/ BodyReturns(l) /\ idx[l] = i
                    \/ LoopStep(l) /\ i \in NewlyFired(l) /\ idx'[l] > i]_vars

\* C22: while a start() coroutine is suspended at `await task.execute()`, it
\* dispatches nothing and begins no tick: until that body returns or raises,
\* whatever else happens, the coroutine stays at the same await with the same
\* current_time and the same entries dispatched.
C22_AwaitBlocksLoop ==
    [][\A l \in LoopIds :
          pc[l] = "awaiting"
              => \/ BodyReturns(l)
                 \/ \E e \in Exceptions : BodyRaises(l, e)
                 \/ /\ pc'[l] = "awaiting"
                    /\ idx'[l] = idx[l]
                    /\ fired'[l] = fired[l]
                    /\ current_time'[l] = current_time[l]]_vars

\* C22's case: the only start() coroutine is at the await of one entry while
\* a later entry, registered without a schedule and so due in every tick,
\* waits undispatched behind it.
C22_Witness ==
    \E l \in LoopIds :
        /\ pc[l] = "awaiting"
        /\ \A k \in LoopIds \ {l} : pc[k] = "none"
        /\ \E j \in (idx[l] + 1)..Len(tasks) :
              /\ tasks[j] \notin DOMAIN task_schedules
              /\ j \notin fired[l]

\* C23: stop() only clears self.running, and the flag is read nowhere but at
\* `while self.running`: a start() coroutine whose awaited body ends after
\* stop() goes on through the rest of self.tasks in that tick, dispatching
\* each entry that is due, and it returns only from asyncio.sleep(1).
C23_StopSeenAtLoopTop ==
    [][/\ Stop => UNCHANGED loopvars
       /\ \A l \in LoopIds :
             /\ (~running /\ (BodyReturns(l) \/ \E e \in Exceptions : BodyRaises(l, e)))
                   => WentOnFrom(l, idx[l])
             /\ (pc[l] # "returned" /\ pc'[l] = "returned")
                   => (pc[l] = "sleeping" /\ ~running)]_vars

\* C23's case: with one start() coroutine, stop() was called in the middle of
\* a tick and an entry was dispatched in that tick after the call.
C23_Witness ==
    \E l \in LoopIds :
        /\ \A k \in LoopIds \ {l} : pc[k] = "none"
        /\ pc[l] \in {"awaiting", "sleeping"}
        /\ stopped /\ ~running
        /\ late_fired
        /\ Cardinality(fired[l]) > 1

\* The positions the for loop of coroutine l comes to in this step.
Reached(l) ==
    {i \in 1..Len(tasks) :
        /\ FirstStep(l) \/ WakeRunning(l) \/ i > idx[l]
        /\ i < idx'[l] \/ (i = idx'[l] /\ pc'[l] = "awaiting")}

\* C24: each time the for loop of a start() coroutine comes to an entry
\* registered without a schedule and with allow_concurrent=True, one more
\* invocation of that entry is outstanding, whatever the number before.
C24_EachTickAddsOne ==
    [][\A l \in LoopIds :
          LoopStep(l)
              => \A i \in Reached(l) :
                    (RegisteredConcurrent(i) /\ RegisteredUnscheduled(i))
                        => spawned'[i] = spawned[i] + 1]_vars

\* n is the first trigger instant of c after t: a whole minute that c
\* matches, later than t, with no such minute between.
FirstTriggerAfter(c, t, n) ==
    /\ n % SecondsPerMinute = 0
    /\ n > t
    /\ MinuteMatches(c, n \div SecondsPerMinute)
    /\ \A m \in 0..((n \div SecondsPerMinute) - 1) :
          m * SecondsPerMinute > t => ~MinuteMatches(c, m)

\* C25: within a tick the for loop never comes back to an entry, and when the
\* firing of an entry registered with a schedule is over (its awaited body has
\* ended, or it was handed to asyncio.create_task), the entry's next_run is
\* the first trigger instant after the tick's current_time, however many
\* trigger instants had gone by.
C25_FiresOnceNextAfterTick ==
    [][\A l \in LoopIds :
          LoopStep(l)
              => /\ pc[l] = "awaiting" => \A j \in NewlyFired(l) : j > idx[l]
                 /\ \A i \in 1..Len(tasks) :
                       (/\ RegisteredScheduled(i)
                        /\ \/ pc[l] = "awaiting" /\ idx[l] = i
                           \/ i \in NewlyFired(l) /\ idx'[l] > i)
                           => FirstTriggerAfter(calls[i].cron, current_time'[l],
                                  task_schedules'[tasks[i]].next_run)]_vars

\* C26: an add_task call given the empty string as cron_expression does not
\* raise; the entry it makes has no schedule record, and every tick whose for
\* loop has passed the entry dispatched it.
C26_EmptyCronUnscheduled ==
    \A i \in 1..Len(calls) :
        calls[i].cron = EmptyString
            => /\ ~calls[i].raised
               /\ tasks[i] \notin DOMAIN task_schedules
               /\ \A l \in ActiveLoops : i < idx[l] => i \in fired[l]

\* C27: no element of self.tasks is left out by a start() coroutine, whenever
\* it was appended: a coroutine that leaves an await goes on over every entry
\* after the awaited one, those appended during the await included, and a
\* coroutine that begins a tick goes over every entry from the first, those
\* appended during asyncio.sleep(1) included; it sleeps only past the last.
C27_AddedWhileRunningNotLost ==
    [][\A l \in LoopIds :
          /\ (BodyReturns(l) \/ \E e \in Exceptions : BodyRaises(l, e))
                => WentOnFrom(l, idx[l])
          /\ (FirstStep(l) \/ WakeRunning(l)) => TickCovers(l)]_vars

\* C27's case: the only start() coroutine read, at the second position and in
\* the tick it is in, a next_run more than a minute after the current_time of
\* that tick: one written by an add_task call made after the tick began.
C27_Witness ==
    \E l \in LoopIds :
        /\ \A k \in LoopIds \ {l} : pc[k] = "none"
        /\ running
        /\ 2 \in DOMAIN found[l]
        /\ found[l][2] > current_time[l] + SecondsPerMinute

\* C28: every element of self.tasks is a key of self.concurrent_tasks, and
\* every key of self.task_schedules is an element of self.tasks.
C28_ListedHasPolicy ==
    /\ \A i \in 1..Len(tasks) : tasks[i] \in DOMAIN concurrent_tasks
    /\ \A task \in DOMAIN task_schedules : task \in Known

\* C28's case: a start() coroutine looked up the policy of a task that an
\* add_task call which raised had left in self.tasks, and dispatched it.
C28_Witness ==
    \E l \in LoopIds : \E i \in fired[l] :
        /\ calls[i].raised
        /\ \A j \in 1..Len(tasks) : j # i => tasks[j] # tasks[i]
        /\ concurrent_tasks[tasks[i]] = calls[i].allow

\* C29: for every delivery, a subscription made with a callback called it
\* once with the message body, before anything was said to the broker; the
\* delivery_tag got one basic_ack and no basic_nack unless the callback
\* raised, and one basic_nack with requeue=True and no basic_ack if it did.
C29_AckOrNackOnce ==
    \A tag \in 1..Len(deliveries) :
        LET d == deliveries[tag]
            ops(op) == {k \in 1..Len(d.log) : d.log[k].op = op}
            acks == ops("basic_ack")
            nacks == ops("basic_nack")
        IN  /\ \A k \in acks \cup nacks : d.log[k].delivery_tag = tag
            /\ Cardinality(acks) + Cardinality(nacks) = 1
            /\ d.callback
                  => /\ Cardinality(ops("callback")) = 1
                     /\ \A k \in ops("callback") :
                           /\ d.log[k].body = d.body
                           /\ \A j \in acks \cup nacks : k < j
            /\ ~d.callback => ops("callback") = {}
            /\ d.ending = "raises"
                  => /\ acks = {}
                     /\ \A k \in nacks : d.log[k].requeue
            /\ d.ending # "raises" => nacks = {}

\* C29's case: a callback raised on a message, the message was delivered
\* again and the callback returned.
C29_Witness ==
    \E i, j \in 1..Len(deliveries) :
        /\ i < j
        /\ deliveries[i].body = deliveries[j].body
        /\ deliveries[i].ending = "raises"
        /\ deliveries[j].ending = "returns"

\* C30: for every get_session() block that is over, session.commit() was
\* called exactly if the block returned; if the block raised,
\* session.rollback() was called and the block's exception left the with
\* statement; session.close() was the last call, made once, and the session
\* is not open. The only sessions open are those whose block is running.
C30_CommitOrRollbackThenClose ==
    \A s \in 1..Len(sessions) :
        LET x == sessions[s]
            at(call) == {k \in 1..Len(x.calls) : x.calls[k] = call}
        IN  IF x.block = "running"
            THEN x.open /\ x.calls = << >>
            ELSE /\ (at("commit") # {}) = (x.block = "returns")
                 /\ x.block = "raises"
                       => at("rollback") # {} /\ x.leaves = "block error"
                 /\ (x.block = "returns" /\ x.commit = "returns")
                       => at("rollback") = {} /\ x.leaves = "nothing"
                 /\ at("close") = {Len(x.calls)}
                 /\ ~x.open

\* C30's case: one block has raised, another has returned and committed, and
\* a third is still running.
C30_Witness ==
    \E a, b, c \in 1..Len(sessions) :
        /\ sessions[a].block = "raises"
        /\ sessions[b].block = "returns" /\ sessions[b].commit = "returns"
        /\ sessions[c].block = "running"

====
